---- MODULE Spec2Model ----
(***************************************************************************)
(* Docs+Git MVP API (main.py, schemas.py): workspaces and pages kept in a  *)
(* document store, with push/pull of one page to a file of a GitHub        *)
(* repository.  Every HTTP handler is one action; the store collections    *)
(* and the remote repository are the state; resp is the response of the    *)
(* last request together with the remote calls and store writes it made.   *)
(*                                                                         *)
(* Optional values (typing.Optional) are sequences of length at most one:  *)
(* <<>> is None and <<v>> is the value v.  Documents are functions from    *)
(* field names to values, so that a key can be absent from a document.     *)
(* Page content is a sequence of Unicode code points.                      *)
(***************************************************************************)
EXTENDS Integers, Sequences, FiniteSets, TLC

VARIABLES
    workspace,  \* db["workspace"]: ObjectId -> document
    page,       \* db["page"]: ObjectId -> document
    nextId,     \* the next ObjectId the store assigns
    remote,     \* the files of the remote repositories
    resp,       \* the response to the last request
    okDeletes   \* history: per page id, the DELETE requests answered {ok: true}

vars == <<workspace, page, nextId, remote, resp, okDeletes>>

(***************************************************************************)
(* Bounds of the model.                                                    *)
(***************************************************************************)
\* the number of documents the store is asked to insert (ObjectIds assigned)
MaxDocs == 3

None == <<>>
Some(v) == <<v>>

(***************************************************************************)
(* Identifiers.  The store assigns ObjectIds (here 1, 2, ...); callers     *)
(* see and send their string form.                                         *)
(***************************************************************************)
ObjectIds == 1..MaxDocs

\* str(ObjectId): the string form of a store identifier
Str(oid) == <<"oid", oid>>

\* a string that is no ObjectId
BadId == <<"bad", 0>>

IdStrings == {Str(i) : i \in ObjectIds} \cup {BadId}

\* bson.ObjectId(id_str) succeeds
IsObjectId(id_str) == id_str[1] = "oid"

\* to_object_id: the ObjectId of a well-formed string (HTTP 400 otherwise)
to_object_id(id_str) == id_str[2]

(***************************************************************************)
(* Python truthiness of an Optional[str] document field read with          *)
(* doc.get(key): absent key, None and "" are all false.                    *)
(***************************************************************************)
Get(doc, key) == IF key \in DOMAIN doc THEN doc[key] ELSE None

Truthy(opt) == opt # None /\ opt[1] # ""

(***************************************************************************)
(* UTF-8 and base64, as str.encode / base64.b64encode / base64.b64decode / *)
(* bytes.decode compute them.  A base64 text is a sequence over 0..63 (the *)
(* alphabet), Pad ('=') and Newline (a character outside the alphabet).     *)
(***************************************************************************)
Pad == 64
Newline == 65

Utf8Char(cp) ==
    IF cp < 128 THEN <<cp>>
    ELSE IF cp < 2048 THEN <<192 + (cp \div 64), 128 + (cp % 64)>>
    ELSE IF cp < 65536
         THEN <<224 + (cp \div 4096), 128 + ((cp \div 64) % 64), 128 + (cp % 64)>>
    ELSE <<240 + (cp \div 262144), 128 + ((cp \div 4096) % 64),
           128 + ((cp \div 64) % 64), 128 + (cp % 64)>>

RECURSIVE Utf8Encode(_)
Utf8Encode(s) ==
    IF s = <<>> THEN <<>> ELSE Utf8Char(Head(s)) \o Utf8Encode(Tail(s))

IsCont(b) == b >= 128 /\ b < 192

\* bytes.decode("utf-8"): Some(code points), or None when the bytes are invalid
RECURSIVE Utf8Decode(_)
Utf8Decode(b) ==
    IF b = <<>> THEN Some(<<>>)
    ELSE LET b0 == b[1]
             n == IF b0 < 128 THEN 1
                  ELSE IF b0 >= 194 /\ b0 < 224 THEN 2
                  ELSE IF b0 >= 224 /\ b0 < 240 THEN 3
                  ELSE IF b0 >= 240 /\ b0 < 245 THEN 4
                  ELSE 0
         IN IF n = 0 \/ Len(b) < n THEN None
            ELSE IF \E i \in 2..n : ~IsCont(b[i]) THEN None
            ELSE LET cp == IF n = 1 THEN b0
                           ELSE IF n = 2 THEN (b0 - 192) * 64 + (b[2] - 128)
                           ELSE IF n = 3
                                THEN (b0 - 224) * 4096 + (b[2] - 128) * 64 + (b[3] - 128)
                           ELSE (b0 - 240) * 262144 + (b[2] - 128) * 4096
                                + (b[3] - 128) * 64 + (b[4] - 128)
                     min == IF n = 1 THEN 0 ELSE IF n = 2 THEN 128
                            ELSE IF n = 3 THEN 2048 ELSE 65536
                     rest == Utf8Decode(SubSeq(b, n + 1, Len(b)))
                 IN IF cp < min \/ (cp >= 55296 /\ cp < 57344) \/ cp > 1114111
                       \/ rest = None
                    THEN None
                    ELSE Some(<<cp>> \o rest[1])

\* a b64encode that leaves the low bits of a last single byte unshifted
RECURSIVE b64encode_tail_unshifted(_)
b64encode_tail_unshifted(b) ==
    IF Len(b) = 0 THEN <<>>
    ELSE IF Len(b) = 1
         THEN <<b[1] \div 4, b[1] % 4, Pad, Pad>>
    ELSE IF Len(b) = 2
         THEN <<b[1] \div 4, (b[1] % 4) * 16 + (b[2] \div 16), (b[2] % 16) * 4, Pad>>
    ELSE <<b[1] \div 4, (b[1] % 4) * 16 + (b[2] \div 16),
           (b[2] % 16) * 4 + (b[3] \div 64), b[3] % 64>>
         \o b64encode_tail_unshifted(SubSeq(b, 4, Len(b)))

\* base64.b64encode
RECURSIVE b64encode(_)
b64encode(b) ==
    IF Len(b) = 0 THEN <<>>
    ELSE IF Len(b) = 1
         THEN <<b[1] \div 4, (b[1] % 4) * 16, Pad, Pad>>
    ELSE IF Len(b) = 2
         THEN <<b[1] \div 4, (b[1] % 4) * 16 + (b[2] \div 16), (b[2] % 16) * 4, Pad>>
    ELSE <<b[1] \div 4, (b[1] % 4) * 16 + (b[2] \div 16),
           (b[2] % 16) * 4 + (b[3] \div 64), b[3] % 64>>
         \o b64encode(SubSeq(b, 4, Len(b)))

\* base64.b64decode (validate=False): characters outside the alphabet are
\* skipped, a complete pad sequence ends the input, and leftover characters
\* of an incomplete quad are an error (None)
RECURSIVE A2bBase64(_, _, _, _, _, _)
A2bBase64(s, i, quad_pos, leftchar, pads, out) ==
    IF i > Len(s) THEN (IF quad_pos # 0 THEN None ELSE Some(out))
    ELSE LET c == s[i] IN
         IF c = Pad
         THEN IF quad_pos >= 2 /\ quad_pos + pads + 1 >= 4
              THEN Some(out)
              ELSE A2bBase64(s, i + 1, quad_pos, leftchar,
                             IF quad_pos >= 2 THEN pads + 1 ELSE pads, out)
         ELSE IF c > Pad
         THEN A2bBase64(s, i + 1, quad_pos, leftchar, pads, out)
         ELSE IF quad_pos = 0
         THEN A2bBase64(s, i + 1, 1, c, 0, out)
         ELSE IF quad_pos = 1
         THEN A2bBase64(s, i + 1, 2, c % 16, 0,
                        Append(out, leftchar * 4 + (c \div 16)))
         ELSE IF quad_pos = 2
         THEN A2bBase64(s, i + 1, 3, c % 4, 0,
                        Append(out, leftchar * 16 + (c \div 4)))
         ELSE A2bBase64(s, i + 1, 0, 0, 0, Append(out, leftchar * 64 + c))

b64decode(s) == A2bBase64(s, 1, 0, 0, 0, <<>>)

(***************************************************************************)
(* The document store (pymongo collections) as the handlers use it.  A     *)
(* collection is a function from ObjectIds to documents; the "_id" key is  *)
(* added when a document is read.                                          *)
(***************************************************************************)
\* db[coll].find_one({"_id": oid}): Some(document) or None
find_one(coll, oid) ==
    IF oid \in DOMAIN coll THEN Some(("_id" :> oid) @@ coll[oid]) ELSE None

\* an update that replaces the document by the fields given
update_set_replace(coll, oid, fields) ==
    IF oid \in DOMAIN coll THEN [coll EXCEPT ![oid] = fields] ELSE coll

\* db[coll].update_one({"_id": oid}, {"$set": fields}): nothing when oid is absent
update_set(coll, oid, fields) ==
    IF oid \in DOMAIN coll THEN [coll EXCEPT ![oid] = fields @@ @] ELSE coll

\* an unset that stores None under the key instead of removing it
update_unset_null(coll, oid, key) ==
    IF oid \in DOMAIN coll THEN [coll EXCEPT ![oid] = (key :> None) @@ @] ELSE coll

\* db[coll].update_one({"_id": oid}, {"$unset": {key: ""}})
update_unset(coll, oid, key) ==
    IF oid \in DOMAIN coll
    THEN [coll EXCEPT ![oid] = [k \in (DOMAIN @) \ {key} |-> @[k]]]
    ELSE coll

\* a deleted_count that does not depend on the document being there
deleted_count_one(coll, oid) == 1

\* db[coll].delete_one({"_id": oid}).deleted_count
deleted_count(coll, oid) == IF oid \in DOMAIN coll THEN 1 ELSE 0

delete_one(coll, oid) == [o \in (DOMAIN coll) \ {oid} |-> coll[o]]

\* database.create_document: inserts the dumped model under a fresh ObjectId
create_document(coll, oid, payload) == (oid :> payload) @@ coll

\* the documents of a collection in store order (insertion order)
RECURSIVE find_all(_)
find_all(coll) ==
    IF DOMAIN coll = {} THEN <<>>
    ELSE LET o == CHOOSE x \in DOMAIN coll : \A z \in DOMAIN coll : x <= z
         IN <<("_id" :> o) @@ coll[o]>>
            \o find_all([z \in (DOMAIN coll) \ {o} |-> coll[z]])

\* cursor.limit(n)
limit(docs, n) == SubSeq(docs, 1, IF Len(docs) < n THEN Len(docs) ELSE n)

WorkspaceListLimit == 50

\* a serialize whose flag only tells None from a string
serialize_flag_not_none(d) ==
    IF d = None THEN None
    ELSE LET doc == d[1]
             renamed == ("id" :> Str(doc["_id"]))
                        @@ [k \in (DOMAIN doc) \ {"_id"} |-> doc[k]]
         IN IF "gh_access_token" \in DOMAIN renamed
            THEN Some(("gh_connected" :> (Get(renamed, "gh_access_token") # None))
                      @@ [k \in (DOMAIN renamed) \ {"gh_access_token"} |-> renamed[k]])
            ELSE Some(renamed)

(***************************************************************************)
(* serialize: "_id" becomes the string "id"; a document that has the key   *)
(* gh_access_token gets gh_connected = bool(token) and loses the token.    *)
(* It is applied to the Optional result of find_one: None stays None.      *)
(***************************************************************************)
serialize(d) ==
    IF d = None THEN None
    ELSE LET doc == d[1]
             renamed == ("id" :> Str(doc["_id"]))
                        @@ [k \in (DOMAIN doc) \ {"_id"} |-> doc[k]]
         IN IF "gh_access_token" \in DOMAIN renamed
            THEN Some(("gh_connected" :> Truthy(Get(renamed, "gh_access_token")))
                      @@ [k \in (DOMAIN renamed) \ {"gh_access_token"} |-> renamed[k]])
            ELSE Some(renamed)

RECURSIVE serialize_all(_)
serialize_all(docs) ==
    IF docs = <<>> THEN <<>>
    ELSE serialize(Some(Head(docs))) \o serialize_all(Tail(docs))

(***************************************************************************)
(* Responses.  body is the sequence of JSON objects returned (one for an   *)
(* entity, none for null or an error); calls are the remote requests the   *)
(* handler made, writes the number of store writes it issued.              *)
(***************************************************************************)
Response(op, status, detail, body, calls, writes) ==
    [op |-> op, status |-> status, detail |-> detail,
     body |-> body, calls |-> calls, writes |-> writes]

\* get_page, as the handlers call it: status, detail and body
get_page(pages, page_id) ==
    IF ~IsObjectId(page_id)
    THEN [status |-> 400, detail |-> "Invalid id", body |-> <<>>]
    ELSE LET doc == find_one(pages, to_object_id(page_id))
         IN IF doc = None
            THEN [status |-> 404, detail |-> "Page not found", body |-> <<>>]
            ELSE [status |-> 200, detail |-> "", body |-> serialize(doc)]

EmptyCollection == [o \in {} |-> <<>>]

(***************************************************************************)
(* The remote repository host (api.github.com), as the handlers reach it   *)
(* through requests.get / requests.put.  remote maps a file, named by      *)
(* <<owner/repo, branch, path>>, to its base64 text.  The host may answer  *)
(* any request with a server error; it accepts a PUT only when the sha     *)
(* sent matches the file it has (none for a new file).                     *)
(***************************************************************************)
NoFiles == [f \in {} |-> <<>>]

FileKey(owner_repo, branch, path) == <<owner_repo, branch, path>>

\* the version token of a file: determined by its content
Sha(text) == <<"sha", text>>

\* the answers the host can give to GET /repos/{owner_repo}/contents/{path}?ref=
RemoteGet(files, key) ==
    {[status |-> 500, sha |-> None, content |-> None, encoding |-> ""]}
    \cup (IF key \in DOMAIN files
          THEN {[status |-> 200, sha |-> Some(Sha(files[key])),
                 content |-> Some(t), encoding |-> "base64"]
                  : t \in {files[key], Append(files[key], Newline)}}
               \cup {[status |-> 200, sha |-> Some(Sha(files[key])),
                      content |-> Some(<<>>), encoding |-> "none"]}
          ELSE {[status |-> 404, sha |-> None, content |-> None, encoding |-> ""]})

\* the answers the host can give to PUT /repos/{owner_repo}/contents/{path}
RemotePut(files, key, body) ==
    {[status |-> 500, files |-> files]}
    \cup (IF key \in DOMAIN files
          THEN IF "sha" \in DOMAIN body /\ body.sha = Sha(files[key])
               THEN {[status |-> 200,
                      files |-> [files EXCEPT ![key] = body.content]]}
               ELSE {[status |-> 422, files |-> files]}
          ELSE IF "sha" \in DOMAIN body
               THEN {[status |-> 422, files |-> files]}
               ELSE {[status |-> 201, files |-> (key :> body.content) @@ files]})

\* the answers to GET /user/repos and GET /repos/{owner_repo}/commits
RemoteList == {200, 401, 500}

\* a status test that lets client errors through
is_error_server_only(status) == status >= 500

\* "if r.status_code >= 300: raise HTTPException(r.status_code, r.text)"
is_error(status) == status >= 300

Call(method, url, status) == [method |-> method, url |-> url, status |-> status]

(***************************************************************************)
(* Workspaces                                                              *)
(***************************************************************************)
\* POST /workspaces
create_workspace(payload) ==
    /\ nextId <= MaxDocs
    /\ workspace' = create_document(workspace, nextId, payload)
    /\ nextId' = nextId + 1
    /\ resp' = Response("create_workspace", 200, "",
                        serialize(find_one(workspace', nextId)), <<>>, 1)
    /\ UNCHANGED <<page, remote, okDeletes>>

\* GET /workspaces
list_workspaces ==
    /\ resp' = Response("list_workspaces", 200, "",
                        serialize_all(limit(find_all(workspace), WorkspaceListLimit)),
                        <<>>, 0)
    /\ UNCHANGED <<workspace, page, nextId, remote, okDeletes>>

(***************************************************************************)
(* Pages                                                                   *)
(***************************************************************************)
\* create_page with the insert before the workspace check
create_page_insert_first(payload) ==
    IF ~IsObjectId(payload.workspace_id)
    THEN /\ resp' = Response("create_page", 400, "Invalid id", <<>>, <<>>, 0)
         /\ UNCHANGED <<workspace, page, nextId, remote, okDeletes>>
    ELSE /\ nextId <= MaxDocs
         /\ page' = create_document(page, nextId, payload)
         /\ nextId' = nextId + 1
         /\ resp' = IF find_one(workspace, to_object_id(payload.workspace_id)) = None
                    THEN Response("create_page", 404, "Workspace not found",
                                  <<>>, <<>>, 1)
                    ELSE Response("create_page", 200, "",
                                  serialize(find_one(page', nextId)), <<>>, 1)
         /\ UNCHANGED <<workspace, remote, okDeletes>>

\* create_page without the workspace check
create_page_unchecked(payload) ==
    IF ~IsObjectId(payload.workspace_id)
    THEN /\ resp' = Response("create_page", 400, "Invalid id", <<>>, <<>>, 0)
         /\ UNCHANGED <<workspace, page, nextId, remote, okDeletes>>
    ELSE /\ nextId <= MaxDocs
         /\ page' = create_document(page, nextId, payload)
         /\ nextId' = nextId + 1
         /\ resp' = Response("create_page", 200, "",
                             serialize(find_one(page', nextId)), <<>>, 1)
         /\ UNCHANGED <<workspace, remote, okDeletes>>

\* POST /pages
create_page(payload) ==
    IF ~IsObjectId(payload.workspace_id)
    THEN /\ resp' = Response("create_page", 400, "Invalid id", <<>>, <<>>, 0)
         /\ UNCHANGED <<workspace, page, nextId, remote, okDeletes>>
    ELSE IF find_one(workspace, to_object_id(payload.workspace_id)) = None
    THEN /\ resp' = Response("create_page", 404, "Workspace not found",
                             <<>>, <<>>, 0)
         /\ UNCHANGED <<workspace, page, nextId, remote, okDeletes>>
    ELSE /\ nextId <= MaxDocs
         /\ page' = create_document(page, nextId, payload)
         /\ nextId' = nextId + 1
         /\ resp' = Response("create_page", 200, "",
                             serialize(find_one(page', nextId)), <<>>, 1)
         /\ UNCHANGED <<workspace, remote, okDeletes>>

\* GET /pages/{page_id}
get_page_handler(page_id) ==
    /\ LET r == get_page(page, page_id)
       IN resp' = Response("get_page", r.status, r.detail, r.body, <<>>, 0)
    /\ UNCHANGED <<workspace, page, nextId, remote, okDeletes>>

PageUpdateFields == {"title", "content", "folder_path", "tags", "git_path"}

\* the document fields whose type is Optional[str]: a document holds them as
\* Optional values, None included
OptionalFields == {"git_path", "gh_access_token", "gh_repo_full_name",
                   "gh_default_branch"}

\* payload.model_dump(exclude_none=True)
exclude_none(payload) ==
    [k \in {f \in DOMAIN payload : payload[f] # None} |->
        IF k \in OptionalFields THEN payload[k] ELSE payload[k][1]]

\* update_page without the early return on an empty update
update_page_always_writes(page_id, payload) ==
    IF ~IsObjectId(page_id)
    THEN /\ resp' = Response("update_page", 400, "Invalid id", <<>>, <<>>, 0)
         /\ UNCHANGED <<workspace, page, nextId, remote, okDeletes>>
    ELSE /\ page' = update_set(page, to_object_id(page_id), exclude_none(payload))
         /\ LET r == get_page(page', page_id)
            IN resp' = Response("update_page", r.status, r.detail, r.body, <<>>, 1)
         /\ UNCHANGED <<workspace, nextId, remote, okDeletes>>

\* PATCH /pages/{page_id}
update_page(page_id, payload) ==
    LET update == exclude_none(payload)
    IN IF DOMAIN update = {}
       THEN /\ LET r == get_page(page, page_id)
               IN resp' = Response("update_page", r.status, r.detail, r.body,
                                   <<>>, 0)
            /\ UNCHANGED <<workspace, page, nextId, remote, okDeletes>>
       ELSE IF ~IsObjectId(page_id)
       THEN /\ resp' = Response("update_page", 400, "Invalid id", <<>>, <<>>, 0)
            /\ UNCHANGED <<workspace, page, nextId, remote, okDeletes>>
       ELSE /\ page' = update_set(page, to_object_id(page_id), update)
            /\ LET r == get_page(page', page_id)
               IN resp' = Response("update_page", r.status, r.detail, r.body,
                                   <<>>, 1)
            /\ UNCHANGED <<workspace, nextId, remote, okDeletes>>

\* DELETE /pages/{page_id}
delete_page(page_id) ==
    IF ~IsObjectId(page_id)
    THEN /\ resp' = Response("delete_page", 400, "Invalid id", <<>>, <<>>, 0)
         /\ UNCHANGED <<workspace, page, nextId, remote, okDeletes>>
    ELSE /\ page' = delete_one(page, to_object_id(page_id))
         /\ IF deleted_count(page, to_object_id(page_id)) = 0
            THEN /\ resp' = Response("delete_page", 404, "Page not found",
                                     <<>>, <<>>, 1)
                 /\ UNCHANGED okDeletes
            ELSE /\ resp' = Response("delete_page", 200, "",
                                     <<[ok |-> TRUE]>>, <<>>, 1)
                 /\ okDeletes' = [okDeletes EXCEPT ![page_id] = @ + 1]
         /\ UNCHANGED <<workspace, nextId, remote>>

\* POST /pages/{page_id}/lock
lock_page(page_id, payload) ==
    IF ~IsObjectId(page_id)
    THEN /\ resp' = Response("lock_page", 400, "Invalid id", <<>>, <<>>, 0)
         /\ UNCHANGED <<workspace, page, nextId, remote, okDeletes>>
    ELSE /\ page' = update_set(page, to_object_id(page_id), [lock |-> payload])
         /\ LET r == get_page(page', page_id)
            IN resp' = Response("lock_page", r.status, r.detail, r.body, <<>>, 1)
         /\ UNCHANGED <<workspace, nextId, remote, okDeletes>>

\* POST /pages/{page_id}/unlock
unlock_page(page_id) ==
    IF ~IsObjectId(page_id)
    THEN /\ resp' = Response("unlock_page", 400, "Invalid id", <<>>, <<>>, 0)
         /\ UNCHANGED <<workspace, page, nextId, remote, okDeletes>>
    ELSE /\ page' = update_unset(page, to_object_id(page_id), "lock")
         /\ LET r == get_page(page', page_id)
            IN resp' = Response("unlock_page", r.status, r.detail, r.body,
                                <<>>, 1)
         /\ UNCHANGED <<workspace, nextId, remote, okDeletes>>

(***************************************************************************)
(* GitHub integration                                                      *)
(***************************************************************************)
\* POST /github/connect
github_connect(payload) ==
    IF ~IsObjectId(payload.workspace_id)
    THEN /\ resp' = Response("github_connect", 400, "Invalid id",
                             <<>>, <<>>, 0)
         /\ UNCHANGED <<workspace, page, nextId, remote, okDeletes>>
    ELSE LET ws_id == to_object_id(payload.workspace_id)
         IN /\ workspace' = update_set(workspace, ws_id,
                                [gh_access_token |-> Some(payload.access_token)])
            /\ resp' = Response("github_connect", 200, "",
                                serialize(find_one(workspace', ws_id)), <<>>, 1)
            /\ UNCHANGED <<page, nextId, remote, okDeletes>>

\* a test that takes any string, the empty one included, for a value
not_configured_none_only(ws, need_repo) ==
    \/ ws = None
    \/ Get(ws[1], "gh_access_token") = None
    \/ need_repo /\ Get(ws[1], "gh_repo_full_name") = None

\* the workspace is missing, or lacks a token (and, with need_repo, a repository)
not_configured(ws, need_repo) ==
    \/ ws = None
    \/ ~Truthy(Get(ws[1], "gh_access_token"))
    \/ need_repo /\ ~Truthy(Get(ws[1], "gh_repo_full_name"))

RepoList == <<[full_name |-> "o/r", default_branch |-> "main"]>>

\* GET /github/repos
github_list_repos(workspace_id) ==
    /\ UNCHANGED <<workspace, page, nextId, remote, okDeletes>>
    /\ IF ~IsObjectId(workspace_id)
       THEN resp' = Response("github_list_repos", 400, "Invalid id",
                             <<>>, <<>>, 0)
       ELSE IF not_configured(find_one(workspace, to_object_id(workspace_id)), FALSE)
       THEN resp' = Response("github_list_repos", 400,
                             "GitHub not connected", <<>>, <<>>, 0)
       ELSE \E status \in RemoteList :
              LET calls == <<Call("GET", "user/repos", status)>>
              IN resp' = IF is_error(status)
                         THEN Response("github_list_repos", status,
                                       "remote", <<>>, calls, 0)
                         ELSE Response("github_list_repos", 200, "",
                                       RepoList, calls, 0)

\* POST /github/select-repo
github_select_repo(payload) ==
    IF ~IsObjectId(payload.workspace_id)
    THEN /\ resp' = Response("github_select_repo", 400, "Invalid id",
                             <<>>, <<>>, 0)
         /\ UNCHANGED <<workspace, page, nextId, remote, okDeletes>>
    ELSE LET ws_id == to_object_id(payload.workspace_id)
         IN /\ workspace' = update_set(workspace, ws_id,
                  [gh_repo_full_name |-> Some(payload.owner \o "/" \o payload.repo),
                   gh_default_branch |-> payload.default_branch])
            /\ resp' = Response("github_select_repo", 200, "",
                                serialize(find_one(workspace', ws_id)), <<>>, 1)
            /\ UNCHANGED <<page, nextId, remote, okDeletes>>

\* ws.get("gh_default_branch", "main")
branch_of(ws) ==
    IF "gh_default_branch" \in DOMAIN ws THEN ws["gh_default_branch"] ELSE Some("main")

DefaultCommitMessage == "docs: update from workspace"

\* POST /github/sync-page
github_sync_page(payload) ==
    LET op == "github_sync_page"
        Fail(status, detail, calls) ==
            /\ resp' = Response(op, status, detail, <<>>, calls, 0)
            /\ UNCHANGED <<workspace, page, nextId, remote, okDeletes>>
    IN
    IF ~IsObjectId(payload.page_id) THEN Fail(400, "Invalid id", <<>>)
    ELSE LET pg == find_one(page, to_object_id(payload.page_id)) IN
    IF pg = None THEN Fail(404, "Page not found", <<>>)
    ELSE IF ~IsObjectId(pg[1].workspace_id) THEN Fail(400, "Invalid id", <<>>)
    ELSE LET ws == find_one(workspace, to_object_id(pg[1].workspace_id)) IN
    IF not_configured(ws, TRUE)
    THEN Fail(400, "GitHub not configured for workspace", <<>>)
    ELSE
      LET key == FileKey(ws[1].gh_repo_full_name[1], branch_of(ws[1]), payload.path)
          content_b64 == b64encode(Utf8Encode(
                             IF "content" \in DOMAIN pg[1] THEN pg[1].content ELSE <<>>))
          message == IF Truthy(payload.commit_message)
                     THEN payload.commit_message[1] ELSE DefaultCommitMessage
          base == [message |-> message, content |-> content_b64,
                   branch |-> branch_of(ws[1])]
      IN \E g \in RemoteGet(remote, key) :
           LET sha == IF g.status = 200 THEN g.sha ELSE None
               body == IF sha # None THEN ("sha" :> sha[1]) @@ base ELSE base
           IN \E p \in RemotePut(remote, key, body) :
                LET calls == <<Call("GET", key, g.status), Call("PUT", key, p.status)>>
                IN IF is_error(p.status)
                   THEN /\ resp' = Response(op, p.status, "remote", <<>>,
                                            calls, 0)
                        /\ remote' = p.files
                        /\ UNCHANGED <<workspace, page, nextId, okDeletes>>
                   ELSE /\ remote' = p.files
                        /\ page' = update_set(page, pg[1]["_id"],
                                              [git_path |-> Some(payload.path)])
                        /\ LET r == get_page(page', Str(pg[1]["_id"]))
                           IN resp' = Response(op, r.status, r.detail, r.body,
                                               calls, 1)
                        /\ UNCHANGED <<workspace, nextId, okDeletes>>

\* POST /github/pull-page
github_pull_page(payload) ==
    LET op == "github_pull_page"
        Fail(status, detail, calls) ==
            /\ resp' = Response(op, status, detail, <<>>, calls, 0)
            /\ UNCHANGED <<workspace, page, nextId, remote, okDeletes>>
    IN
    IF ~IsObjectId(payload.page_id) THEN Fail(400, "Invalid id", <<>>)
    ELSE LET pg == find_one(page, to_object_id(payload.page_id)) IN
    IF pg = None \/ ~Truthy(Get(pg[1], "git_path"))
    THEN Fail(400, "Page not synced to a git path yet", <<>>)
    ELSE IF ~IsObjectId(pg[1].workspace_id) THEN Fail(400, "Invalid id", <<>>)
    ELSE LET ws == find_one(workspace, to_object_id(pg[1].workspace_id)) IN
    IF not_configured(ws, TRUE)
    THEN Fail(400, "GitHub not configured for workspace", <<>>)
    ELSE
      LET key == FileKey(ws[1].gh_repo_full_name[1], branch_of(ws[1]),
                         pg[1].git_path[1])
      IN \E g \in RemoteGet(remote, key) :
           LET calls == <<Call("GET", key, g.status)>>
               Respond(pages, writes) ==
                   LET r == get_page(pages, Str(pg[1]["_id"]))
                   IN resp' = Response(op, r.status, r.detail, r.body,
                                       calls, writes)
           IN IF is_error(g.status) THEN Fail(g.status, "remote", calls)
              ELSE IF g.encoding = "base64" /\ g.content # None /\ g.content[1] # <<>>
              THEN LET raw == b64decode(g.content[1])
                       content == IF raw = None THEN None ELSE Utf8Decode(raw[1])
                   IN IF content = None
                      THEN Fail(500, "Internal Server Error", calls)
                      ELSE /\ page' = update_set(page, pg[1]["_id"],
                                                 [content |-> content[1]])
                           /\ Respond(page', 1)
                           /\ UNCHANGED <<workspace, nextId, remote, okDeletes>>
              ELSE /\ Respond(page, 0)
                   /\ UNCHANGED <<workspace, page, nextId, remote, okDeletes>>

\* the commits the host lists: one complete, one without author information
CommitList ==
    <<[sha |-> "c1", html_url |-> "u1",
       commit |-> [message |-> "m1", author |-> Some([name |-> "ann", date |-> "d1"])]],
      [sha |-> "c2", html_url |-> "u2",
       commit |-> [message |-> "m2", author |-> None]]>>

\* one entry of the history listing
compact(x) ==
    [sha |-> Some(x.sha),
     author |-> IF x.commit.author = None THEN None ELSE Some(x.commit.author[1].name),
     date |-> IF x.commit.author = None THEN None ELSE Some(x.commit.author[1].date),
     message |-> Some(x.commit.message),
     url |-> Some(x.html_url)]

\* GET /github/history
github_history(workspace_id, path) ==
       /\ UNCHANGED <<workspace, page, nextId, remote, okDeletes>>
       /\ IF ~IsObjectId(workspace_id)
          THEN resp' = Response("github_history", 400, "Invalid id", <<>>, <<>>, 0)
          ELSE LET ws == find_one(workspace, to_object_id(workspace_id)) IN
               IF not_configured(ws, TRUE)
               THEN resp' = Response("github_history", 400,
                                     "GitHub not configured for workspace",
                                     <<>>, <<>>, 0)
               ELSE \E status \in RemoteList :
                      LET calls == <<Call("GET", <<ws[1].gh_repo_full_name[1], path>>,
                                          status)>>
                      IN resp' = IF is_error(status)
                                 THEN Response("github_history", status, "remote",
                                               <<>>, calls, 0)
                                 ELSE Response("github_history", 200, "",
                                               [i \in 1..Len(CommitList) |->
                                                   compact(CommitList[i])],
                                               calls, 0)

\* the repository is changed from outside this program (a commit by another
\* client sets the file's bytes, or removes the file)
remote_edit(key, bytes) ==
    /\ key \in DOMAIN remote
    /\ remote' = [remote EXCEPT ![key] = b64encode(bytes)]
    /\ remote[key] # remote'[key]
    /\ resp' = Response("remote_edit", 200, "", <<>>, <<>>, 0)
    /\ UNCHANGED <<workspace, page, nextId, okDeletes>>

(***************************************************************************)
(* The requests the model sends.  Each specification below sends the       *)
(* requests of one part of the API, with the values that part's claims are *)
(* about; Spec sends every request with few values.                        *)
(***************************************************************************)
\* "" (no byte), "A" (1 byte), "€é" (5 bytes): every padding of base64 occurs
Contents == {<<>>, <<65>>, <<8364, 233>>}

NewWorkspace ==
    [name |-> "Acme", gh_access_token |-> None, gh_repo_full_name |-> None,
     gh_default_branch |-> Some("main")]

WorkspacePayloads ==
    {NewWorkspace, [NewWorkspace EXCEPT !.gh_access_token = Some("tok")]}

PagePayloads(contents) ==
    [title : {"Intro"}, content : contents, folder_path : {"/"}, tags : {<<>>},
     workspace_id : IdStrings, git_path : {None}]

NoUpdate ==
    [title |-> None, content |-> None, folder_path |-> None, tags |-> None,
     git_path |-> None]

TagsUpdate == [NoUpdate EXCEPT !.tags = Some(<<"draft">>)]

\* every field but tags
TextUpdate ==
    [NoUpdate EXCEPT !.title = Some("Guide"), !.content = Some(<<65>>),
                     !.folder_path = Some("/docs"), !.git_path = Some("a.md")]

PageUpdates == {NoUpdate, TagsUpdate, TextUpdate}

LockPayloads ==
    {[locked_by |-> Some("ann"), is_locked |-> TRUE],
     [locked_by |-> None, is_locked |-> FALSE]}

GitConnects(tokens) == [workspace_id : IdStrings, access_token : tokens]

GitRepoSelects ==
    [workspace_id : IdStrings, owner : {"o"}, repo : {"r"},
     default_branch : {Some("main")}]

Paths == {"a.md"}

GitSyncPages == [page_id : IdStrings, path : Paths, commit_message : {None}]

GitPullPages == [page_id : IdStrings]

Init ==
    /\ workspace = EmptyCollection
    /\ page = EmptyCollection
    /\ nextId = 1
    /\ remote = NoFiles
    /\ resp = Response("start", 200, "", <<>>, <<>>, 0)
    /\ okDeletes = [id \in IdStrings |-> 0]

\* every request of the API, on workspaces created with a token and a repository
Next ==
    \/ create_workspace([NewWorkspace EXCEPT !.gh_access_token = Some("tok"),
                                             !.gh_repo_full_name = Some("o/r")])
    \/ list_workspaces
    \/ \E payload \in PagePayloads({<<65>>}) : create_page(payload)
    \/ \E page_id \in IdStrings : get_page_handler(page_id)
    \/ \E page_id \in IdStrings :
         update_page(page_id, [NoUpdate EXCEPT !.git_path = Some("a.md")])
    \/ \E page_id \in IdStrings : delete_page(page_id)
    \/ \E page_id \in IdStrings :
         lock_page(page_id, [locked_by |-> Some("ann"), is_locked |-> TRUE])
    \/ \E page_id \in IdStrings : unlock_page(page_id)
    \/ \E payload \in GitConnects({"tok"}) : github_connect(payload)
    \/ \E workspace_id \in IdStrings : github_list_repos(workspace_id)
    \/ \E payload \in GitRepoSelects : github_select_repo(payload)
    \/ \E payload \in GitSyncPages : github_sync_page(payload)
    \/ \E payload \in GitPullPages : github_pull_page(payload)
    \/ \E workspace_id \in IdStrings, path \in Paths : github_history(workspace_id, path)

Spec == Init /\ [][Next]_vars

\* the page requests
NextPages ==
    \/ create_workspace(NewWorkspace)
    \/ \E payload \in PagePayloads({<<>>}) : create_page(payload)
    \/ \E page_id \in IdStrings : get_page_handler(page_id)
    \/ \E page_id \in IdStrings, payload \in PageUpdates :
         update_page(page_id, payload)
    \/ \E page_id \in IdStrings : delete_page(page_id)
    \/ \E page_id \in IdStrings :
         lock_page(page_id, [locked_by |-> Some("ann"), is_locked |-> TRUE])

SpecPages == Init /\ [][NextPages]_vars

\* the lock requests, on pages as created and as changed by a PATCH
NextLocks ==
    \/ create_workspace(NewWorkspace)
    \/ \E payload \in PagePayloads({<<>>}) : create_page(payload)
    \/ \E page_id \in IdStrings : get_page_handler(page_id)
    \/ \E page_id \in IdStrings : update_page(page_id, TagsUpdate)
    \/ \E page_id \in IdStrings, payload \in LockPayloads : lock_page(page_id, payload)
    \/ \E page_id \in IdStrings : unlock_page(page_id)

SpecLocks == Init /\ [][NextLocks]_vars

\* the workspace requests
NextWorkspaces ==
    \/ \E payload \in WorkspacePayloads : create_workspace(payload)
    \/ list_workspaces
    \/ \E payload \in GitConnects({"", "tok"}) : github_connect(payload)
    \/ \E payload \in GitRepoSelects : github_select_repo(payload)

SpecWorkspaces == Init /\ [][NextWorkspaces]_vars

\* the requests that need a connected workspace and a selected repository,
\* on workspaces created in every state of configuration (POST /workspaces
\* takes the token and the repository as optional fields)
NextGate ==
    \/ \E token \in {None, Some(""), Some("tok")}, repo \in {None, Some("o/r")} :
         create_workspace([NewWorkspace EXCEPT !.gh_access_token = token,
                                               !.gh_repo_full_name = repo])
    \/ \E payload \in PagePayloads({<<65>>}) : create_page(payload)
    \/ \E page_id \in IdStrings :
         update_page(page_id, [NoUpdate EXCEPT !.git_path = Some("")])
    \/ \E workspace_id \in IdStrings : github_list_repos(workspace_id)
    \/ \E payload \in GitSyncPages : github_sync_page(payload)
    \/ \E payload \in GitPullPages : github_pull_page(payload)
    \/ \E workspace_id \in IdStrings, path \in Paths : github_history(workspace_id, path)

SpecGate == Init /\ [][NextGate]_vars

\* the bytes another client may commit: text, or a file that is no UTF-8
ForeignFiles == {Utf8Encode(c) : c \in Contents} \cup {<<255>>}

\* push and pull of page contents, on connected workspaces
NextSync ==
    \/ create_workspace([NewWorkspace EXCEPT !.gh_access_token = Some("tok")])
    \/ \E payload \in PagePayloads(Contents) : create_page(payload)
    \/ \E payload \in GitRepoSelects : github_select_repo(payload)
    \/ \E payload \in GitSyncPages : github_sync_page(payload)
    \/ \E payload \in GitPullPages : github_pull_page(payload)
    \/ \E key \in DOMAIN remote, bytes \in ForeignFiles : remote_edit(key, bytes)

SpecSync == Init /\ [][NextSync]_vars

(***************************************************************************)
(* Properties.                                                             *)
(***************************************************************************)
WorkspaceExists(id_str) ==
    IsObjectId(id_str) /\ to_object_id(id_str) \in DOMAIN workspace

PageExists(id_str) ==
    IsObjectId(id_str) /\ to_object_id(id_str) \in DOMAIN page

StoreUnchanged == UNCHANGED <<workspace, page, nextId>>

\* C1, as stated: a create_page request whose workspace_id references no
\* existing workspace is answered 404 and leaves the page collection as it was.
C1_MissingWorkspaceNotFound ==
    [][\A payload \in PagePayloads(Contents) :
         (/\ resp'.op = "create_page"
          /\ ~WorkspaceExists(payload.workspace_id)
          /\ create_page(payload))
         => (resp'.status = 404 /\ page' = page)]_vars

\* C1, amended: a create_page request whose workspace_id references no existing
\* workspace fails and inserts nothing (no store write is issued; the page
\* collection, the workspaces and the id counter are unchanged); the answer is
\* 404 "Workspace not found" when the id is well-formed and 400 "Invalid id"
\* when it is not.
C1_MissingWorkspaceRejected ==
    [][\A payload \in PagePayloads(Contents) :
         (/\ resp'.op = "create_page"
          /\ ~WorkspaceExists(payload.workspace_id)
          /\ create_page(payload))
         => /\ resp'.status = IF IsObjectId(payload.workspace_id) THEN 404 ELSE 400
            /\ resp'.body = <<>>
            /\ resp'.writes = 0
            /\ StoreUnchanged]_vars

\* C1 witness: a create_page request was answered 404 while pages are stored
C1_Witness ==
    /\ resp.op = "create_page"
    /\ resp.status = 404
    /\ DOMAIN page # {}

\* C2: no page id ever gets two {ok: true} answers to DELETE; once a DELETE of
\* an id has succeeded the page is absent from the store from then on, and any
\* further DELETE of that id is answered 404.
C2_DeleteOnce ==
    [][\A page_id \in IdStrings :
         /\ okDeletes'[page_id] <= 1
         /\ okDeletes'[page_id] = 1 => ~PageExists(page_id)'
         /\ (resp'.op = "delete_page" /\ PageExists(page_id) /\ delete_page(page_id))
            => (resp'.status = 200 /\ okDeletes[page_id] = 0)
         /\ (/\ resp'.op = "delete_page"
             /\ okDeletes[page_id] = 1
             /\ delete_page(page_id))
            => (resp'.status = 404 /\ page' = page)]_vars

\* C2 witness: a page was deleted with success and a later DELETE was answered
\* 404, no page being left in the store
C2_Witness ==
    /\ \E page_id \in IdStrings : okDeletes[page_id] = 1
    /\ resp.op = "delete_page"
    /\ resp.status = 404
    /\ DOMAIN page = {}

\* the document of a page without the given keys
Without(doc, keys) == [k \in (DOMAIN doc) \ keys |-> doc[k]]

\* every page but the one named is as it was
OtherPagesUnchanged(page_id) ==
    /\ DOMAIN page' = DOMAIN page
    /\ \A o \in (DOMAIN page) \ {to_object_id(page_id)} : page'[o] = page[o]

\* C7: a PATCH of an existing page gives every field present (not None) in the
\* payload the payload's value and leaves every other field of that page,
\* every other page and every workspace as they were; a PATCH of an id that
\* is not in the store changes nothing and is answered 404 (400 "Invalid id"
\* when the string is no identifier at all).
C7_PartialUpdate ==
    [][\A page_id \in IdStrings, payload \in PageUpdates :
         (resp'.op = "update_page" /\ update_page(page_id, payload))
         => IF PageExists(page_id)
            THEN LET old == page[to_object_id(page_id)]
                     new == page'[to_object_id(page_id)]
                     given == {k \in PageUpdateFields : payload[k] # None}
                 IN /\ resp'.status = 200
                    /\ OtherPagesUnchanged(page_id)
                    /\ DOMAIN new = (DOMAIN old) \cup given
                    /\ \A k \in given :
                         new[k] = IF k \in OptionalFields THEN payload[k]
                                  ELSE payload[k][1]
                    /\ Without(new, given) = Without(old, given)
                    /\ UNCHANGED <<workspace, nextId>>
            ELSE /\ resp'.status = IF IsObjectId(page_id) THEN 404 ELSE 400
                 /\ StoreUnchanged]_vars

\* C7 witness: a page whose tags were set by a PATCH and whose title is still
\* the one it was created with, beside a page changed by the other PATCH
C7_Witness ==
    /\ resp.op = "update_page"
    /\ resp.status = 200
    /\ resp.body[1].tags = <<"draft">>
    /\ resp.body[1].title = "Intro"
    /\ \E o \in DOMAIN page : page[o].title = "Guide" /\ page[o].tags = <<>>

\* C8: a PATCH with no field given issues no store write, changes nothing, and
\* on an existing page returns the page's record as it is stored.
C8_EmptyUpdate ==
    [][\A page_id \in IdStrings :
         (resp'.op = "update_page" /\ update_page(page_id, NoUpdate))
         => /\ resp'.writes = 0
            /\ StoreUnchanged
            /\ PageExists(page_id)
               => /\ resp'.status = 200
                  /\ resp'.body
                     = <<("id" :> page_id) @@ page[to_object_id(page_id)]>>]_vars

\* C8 witness: a PATCH that wrote nothing returned a page whose fields had
\* been changed before
C8_Witness ==
    /\ resp.op = "update_page"
    /\ resp.status = 200
    /\ resp.writes = 0
    /\ resp.body[1].title = "Guide"

\* C9: lock_page on an existing page stores exactly the payload under "lock",
\* whatever was there, and unlock_page removes the key, whatever was there;
\* both leave every other field, page and workspace alone, and the page
\* returned by an unlock that follows a lock has no "lock" field.
C9_LockUnlock ==
    [][\A page_id \in IdStrings :
         /\ \A payload \in LockPayloads :
              (/\ resp'.op = "lock_page"
               /\ PageExists(page_id)
               /\ lock_page(page_id, payload))
              => /\ resp'.status = 200
                 /\ "lock" \in DOMAIN page'[to_object_id(page_id)]
                 /\ page'[to_object_id(page_id)].lock = payload
                 /\ resp'.body[1].lock = payload
                 /\ Without(page'[to_object_id(page_id)], {"lock"})
                    = Without(page[to_object_id(page_id)], {"lock"})
                 /\ OtherPagesUnchanged(page_id)
                 /\ UNCHANGED <<workspace, nextId>>
         /\ (resp'.op = "unlock_page" /\ PageExists(page_id) /\ unlock_page(page_id))
            => /\ resp'.status = 200
               /\ "lock" \notin DOMAIN resp'.body[1]
               /\ page'[to_object_id(page_id)]
                  = Without(page[to_object_id(page_id)], {"lock"})
               /\ OtherPagesUnchanged(page_id)
               /\ UNCHANGED <<workspace, nextId>>
         /\ (/\ resp.op = "lock_page" /\ resp.status = 200
             /\ resp.body[1].id = page_id
             /\ resp'.op = "unlock_page"
             /\ unlock_page(page_id))
            => (resp'.status = 200 /\ "lock" \notin DOMAIN resp'.body[1])]_vars

\* C9 witness: an unlock answered with a page that has no lock, the other
\* page being locked
C9_Witness ==
    /\ resp.op = "unlock_page"
    /\ resp.status = 200
    /\ "lock" \notin DOMAIN resp.body[1]
    /\ \E o \in DOMAIN page : "lock" \in DOMAIN page[o]

WorkspaceOps ==
    {"create_workspace", "list_workspaces", "github_connect", "github_select_repo"}

\* the workspaces returned by the last request, when it returns workspaces
Returned == IF resp.op \in WorkspaceOps THEN {resp.body[i] : i \in 1..Len(resp.body)}
            ELSE {}

\* the returned workspace d shows connected = true
ShowsConnected(d) == "gh_connected" \in DOMAIN d /\ d.gh_connected

\* the credential stored for the returned workspace d
StoredToken(d) == Get(workspace[to_object_id(d.id)], "gh_access_token")

\* C3, as stated: a returned workspace never has the credential field, and its
\* connected flag is true exactly when a credential has been set on it (at
\* creation or by github_connect; a credential once set is never removed).
C3_ConnectedIffCredentialSet ==
    \A d \in Returned :
      /\ "gh_access_token" \notin DOMAIN d
      /\ ShowsConnected(d) <=> StoredToken(d) # None

\* C3, amended: a returned workspace never has the credential field, and its
\* connected flag is true exactly when the credential now stored on the
\* workspace is a non-empty string; every other field is returned as stored.
C3_ConnectedIffTokenNonEmpty ==
    \A d \in Returned :
      /\ "gh_access_token" \notin DOMAIN d
      /\ ShowsConnected(d) <=> (StoredToken(d) # None /\ StoredToken(d) # Some(""))
      /\ Without(d, {"id", "gh_connected"})
         = Without(workspace[to_object_id(d.id)], {"gh_access_token"})

\* C3 witness: a listing of two workspaces, the first connected, the second
\* with the empty string stored as its credential
C3_Witness ==
    /\ resp.op = "list_workspaces"
    /\ Len(resp.body) = 2
    /\ resp.body[1].gh_connected
    /\ ~resp.body[2].gh_connected
    /\ StoredToken(resp.body[2]) = Some("")

\* C10: every stored page's workspace_id is the string form of the id of a
\* stored workspace, and no step removes a workspace or changes the
\* workspace_id of a page.
C10_PagesReferenceWorkspaces ==
    [][/\ \A o \in DOMAIN page' :
            /\ IsObjectId(page'[o].workspace_id)
            /\ to_object_id(page'[o].workspace_id) \in DOMAIN workspace'
       /\ DOMAIN workspace \subseteq DOMAIN workspace'
       /\ \A o \in (DOMAIN page) \cap (DOMAIN page') :
            page'[o].workspace_id = page[o].workspace_id]_vars

\* C10 witness: a page stored that references the second of two workspaces,
\* after a request for a missing workspace was refused
C10_Witness ==
    /\ Cardinality(DOMAIN workspace) = 2
    /\ \E o \in DOMAIN page : page[o].workspace_id = Str(2)
    /\ resp.op = "create_page"
    /\ resp.status = 404

SyncOps == {"github_sync_page", "github_pull_page"}

\* the pages differ in one document only, and there only in the field named
OnlyFieldChanged(field) ==
    /\ DOMAIN page' = DOMAIN page
    /\ \E o \in DOMAIN page :
         /\ \A z \in (DOMAIN page) \ {o} : page'[z] = page[z]
         /\ Without(page'[o], {field}) = Without(page[o], {field})

\* C4: a sync-page or pull-page request that does not end in 200 changes no
\* page and no workspace; when the remote call it depends on (the PUT of a
\* sync, the GET of a pull) answers 300 or more, the request ends with that
\* status; and a page is changed only after that call answered below 300, in
\* its git_path (sync) or its content (pull) alone.
C4_SyncPullAllOrNothing ==
    [][resp'.op \in SyncOps
       => LET calls == resp'.calls
              last == calls[Len(calls)]
          IN /\ UNCHANGED <<workspace, nextId>>
             /\ resp'.status # 200 => page' = page
             /\ (calls # <<>> /\ last.status >= 300)
                => (resp'.status = last.status /\ page' = page)
             /\ page' # page
                => /\ resp'.status = 200
                   /\ calls # <<>>
                   /\ last.status < 300
                   /\ last.method = IF resp'.op = "github_sync_page" THEN "PUT"
                                    ELSE "GET"
                   /\ OnlyFieldChanged(IF resp'.op = "github_sync_page"
                                       THEN "git_path" ELSE "content")]_vars

\* C4 witness: a sync whose PUT the host rejected ended with the host's status
C4_Witness ==
    /\ resp.op = "github_sync_page"
    /\ Len(resp.calls) = 2
    /\ resp.calls[2].status = 422
    /\ resp.status = 422
    /\ Cardinality(DOMAIN page) = 2

\* the request answered 400 without a remote call or a store write
Refused ==
    /\ resp'.status = 400
    /\ resp'.calls = <<>>
    /\ resp'.writes = 0
    /\ UNCHANGED <<workspace, page, nextId, remote>>

IsSet(opt) == opt # None /\ opt # Some("")

HasCredential(id_str) ==
    /\ WorkspaceExists(id_str)
    /\ IsSet(workspace[to_object_id(id_str)].gh_access_token)

RepoSelected(id_str) ==
    /\ HasCredential(id_str)
    /\ IsSet(workspace[to_object_id(id_str)].gh_repo_full_name)

HasGitPath(id_str) ==
    /\ PageExists(id_str)
    /\ IsSet(page[to_object_id(id_str)].git_path)

\* C5: github_list_repos on a workspace without a credential, github_history
\* on a workspace and github_sync_page on a page of a workspace without a
\* credential or without a repository, and github_pull_page on a page without
\* a non-empty git_path are all answered 400, with no remote call made and
\* nothing changed in the store or the repository.
C5_RequiresConfiguration ==
    [][/\ \A workspace_id \in IdStrings :
            (/\ resp'.op = "github_list_repos"
             /\ ~HasCredential(workspace_id)
             /\ github_list_repos(workspace_id))
            => Refused
       /\ \A workspace_id \in IdStrings, path \in Paths :
            (/\ resp'.op = "github_history"
             /\ ~RepoSelected(workspace_id)
             /\ github_history(workspace_id, path))
            => Refused
       /\ \A payload \in GitSyncPages :
            (/\ resp'.op = "github_sync_page"
             /\ PageExists(payload.page_id)
             /\ ~RepoSelected(page[to_object_id(payload.page_id)].workspace_id)
             /\ github_sync_page(payload))
            => Refused
       /\ \A payload \in GitPullPages :
            (/\ resp'.op = "github_pull_page"
             /\ ~HasGitPath(payload.page_id)
             /\ github_pull_page(payload))
            => Refused]_vars

\* C5 witness: a sync refused for a page whose workspace has a token but no
\* repository, while another workspace holds the empty string as its token
C5_Witness ==
    /\ resp.op = "github_sync_page"
    /\ resp.status = 400
    /\ resp.detail = "GitHub not configured for workspace"
    /\ \E w \in DOMAIN workspace :
         /\ workspace[w].gh_access_token = Some("tok")
         /\ workspace[w].gh_repo_full_name = None
         /\ \A o \in DOMAIN page : page[o].workspace_id = Str(w)
    /\ \E w \in DOMAIN workspace : workspace[w].gh_access_token = Some("")
    /\ DOMAIN page # {}

\* the last request was op, answered 200 with the page of the given id
Answered(op, page_id) ==
    /\ resp.op = op
    /\ resp.status = 200
    /\ resp.body # <<>>
    /\ resp.body[1].id = page_id

\* C6: a sync-page answered 200 leaves the page's content as it was, and a
\* pull-page of the same page answered 200 right after it (no request and no
\* change of the repository in between) leaves the content as it was too.
C6_SyncPullRoundTrip ==
    [][\A page_id \in IdStrings :
         /\ (Answered("github_sync_page", page_id)' /\ PageExists(page_id))
            => page'[to_object_id(page_id)].content
               = page[to_object_id(page_id)].content
         /\ (Answered("github_sync_page", page_id)
             /\ Answered("github_pull_page", page_id)')
            => page'[to_object_id(page_id)].content
               = page[to_object_id(page_id)].content]_vars

\* C6 witness: a pull decoded the file and wrote a content of several
\* characters that the repository holds as it was pushed
C6_Witness ==
    /\ resp.op = "github_pull_page"
    /\ resp.status = 200
    /\ resp.writes = 1
    /\ resp.body[1].content = <<8364, 233>>
    /\ \E key \in DOMAIN remote : remote[key] = b64encode(Utf8Encode(<<8364, 233>>))

====
